---- MODULE Spec2Model ----
(***************************************************************************)
(* Model of the ToF lidar poller (src/src/main.rs): the startup loop that  *)
(* opens the configured serial ports, and the endless poll loop that       *)
(* reads one frame (binary mode) or one line (text mode) from every port,  *)
(* builds one JSON record per cycle and appends it to a time-bucketed file.*)
(***************************************************************************)
EXTENDS Integers, Sequences, FiniteSets, TLC

\* ------------------------------------------------------------------------
\* Bounds of the model
\* ------------------------------------------------------------------------
\* number of poll cycles that are started
MaxCycles == 2
\* number of one-second clock ticks that elapse during the run
MaxTicks == 2
\* longest exhaustively enumerated text-line body (bytes before the newline)
MaxBodyLen == 2

\* ------------------------------------------------------------------------
\* Program constants
\* ------------------------------------------------------------------------
JSON_FILE_INTERVAL_MINUTES == 2
PORTS == <<"/dev/ttyACM1", "/dev/ttyACM0", "/dev/ttyACM2">>
MAX_DISTANCE_MM == 6000
MIN_DISTANCE_MM == 500
TEXT_MODE_COMMAND == <<0, 17, 1, 69>>
BINARY_MODE_COMMAND == <<0, 17, 2, 76>>
\* the frame header byte 0x54 of the binary arm
FRAME_HEADER == 84
\* u16::MAX, the width of every distance of the program
U16_MAX == 65535

NumPorts == Len(PORTS)
PortNames == {PORTS[k] : k \in 1..NumPorts}

\* wall clock at process start, in seconds since midnight of day 0: 10:01:58
StartTime == 10 * 3600 + 1 * 60 + 58

\* ------------------------------------------------------------------------
\* u16 arithmetic of the binary arm
\* ------------------------------------------------------------------------
RECURSIVE BitOr(_, _)
\* bitwise or of two naturals
BitOr(a, b) ==
  IF a = 0 THEN b
  ELSE IF b = 0 THEN a
  ELSE (IF (a % 2 = 1) \/ (b % 2 = 1) THEN 1 ELSE 0) + 2 * BitOr(a \div 2, b \div 2)

\* (x as u16) << 8: bits shifted out of the 16-bit word are lost
Shl8(x) == (x * 256) % (U16_MAX + 1)

\* FrameDistance reading bytes 1 and 2 instead of bytes 2 and 3
FrameDistanceShifted(buffer) == BitOr(Shl8(buffer[2]), buffer[3]) \div 10

\* lines 157-158: (buffer[2] as u16) << 8 | (buffer[3] as u16), then / 10
FrameDistance(buffer) == BitOr(Shl8(buffer[3]), buffer[4]) \div 10

\* InRange with both ends excluded
InRangeExclusive(distance) == distance > MIN_DISTANCE_MM /\ distance < MAX_DISTANCE_MM

\* InRange without its lower limit
InRangeNoMin(distance) == distance <= MAX_DISTANCE_MM

\* lines 80 and 160: distance >= MIN_DISTANCE_MM && distance <= MAX_DISTANCE_MM
InRange(distance) == distance >= MIN_DISTANCE_MM /\ distance <= MAX_DISTANCE_MM

\* ------------------------------------------------------------------------
\* Text parsing: str::trim and str::parse::<u16>
\* ------------------------------------------------------------------------
Digits == {"0", "1", "2", "3", "4", "5", "6", "7", "8", "9"}
DigitVal == [c \in Digits |->
  CASE c = "0" -> 0 [] c = "1" -> 1 [] c = "2" -> 2 [] c = "3" -> 3 [] c = "4" -> 4
    [] c = "5" -> 5 [] c = "6" -> 6 [] c = "7" -> 7 [] c = "8" -> 8 [] c = "9" -> 9]
WhiteSpace == {" ", "\n", "\r", "\t"}

RECURSIVE TrimStart(_)
TrimStart(s) ==
  IF s # <<>> /\ Head(s) \in WhiteSpace THEN TrimStart(Tail(s)) ELSE s

RECURSIVE TrimEnd(_)
TrimEnd(s) ==
  IF s # <<>> /\ s[Len(s)] \in WhiteSpace THEN TrimEnd(SubSeq(s, 1, Len(s) - 1)) ELSE s

\* str::trim: leading and trailing whitespace removed
Trim(s) == TrimEnd(TrimStart(s))

ParseErr == -1

RECURSIVE ParseDigitsWrapping(_, _)
\* ParseDigits with wrapping instead of checked arithmetic
ParseDigitsWrapping(s, acc) ==
  IF s = <<>> THEN acc
  ELSE IF Head(s) \notin Digits THEN ParseErr
  ELSE ParseDigitsWrapping(Tail(s), (acc * 10 + DigitVal[Head(s)]) % (U16_MAX + 1))

RECURSIVE ParseDigits(_, _)
\* the digit loop of u16::from_str: an invalid digit or a value past u16::MAX fails
ParseDigits(s, acc) ==
  IF s = <<>> THEN acc
  ELSE IF Head(s) \notin Digits THEN ParseErr
  ELSE IF acc * 10 + DigitVal[Head(s)] > U16_MAX THEN ParseErr
  ELSE ParseDigits(Tail(s), acc * 10 + DigitVal[Head(s)])

\* str::parse::<u16>: empty input, a lone sign and "-" fail; one leading "+" is allowed
ParseU16(s) ==
  IF s = <<>> THEN ParseErr
  ELSE IF Len(s) = 1 /\ Head(s) \in {"+", "-"} THEN ParseErr
  ELSE IF Head(s) = "+" THEN ParseDigits(Tail(s), 0)
  ELSE ParseDigits(s, 0)

\* ------------------------------------------------------------------------
\* Inputs: what one read of a serial port can return
\* ------------------------------------------------------------------------
\* Outcomes of a read that returns no data: the 500 ms port timeout, any other
\* I/O error (invalid UTF-8 included), end of stream
ReadFailures == {"timeout", "ioerr", "eof"}
NoData == <<>>

\* bytes of the binary frames that are enumerated: header or not, any byte 1,
\* high and low bytes around both range limits and at the top of the word
HeaderBytes == {FRAME_HEADER, 0}
Byte1Values == {0, 255}
HighBytes == {19, 234, 255}
LowBytes == {96, 106, 135, 136, 255}
Frames == {<<b0, b1, hi, lo>> : b0 \in HeaderBytes, b1 \in Byte1Values,
                                hi \in HighBytes, lo \in LowBytes}

\* text lines: every body over BodyChars up to MaxBodyLen, and the sample
\* bodies around the limits of the range and of u16, each ended by a newline;
\* a line without its newline is what read_line returns at end of stream
BodyChars == {"5", "0", " "}
RECURSIVE BodiesOfLen(_)
BodiesOfLen(n) ==
  IF n = 0 THEN {<<>>}
  ELSE {<<c>> \o b : c \in BodyChars, b \in BodiesOfLen(n - 1)}
SampleBodies ==
  { <<"1","2","3","4">>, <<"7","0","0","0">>, <<"5","0","0">>, <<"4","9","9">>,
    <<"6","0","0","0">>, <<"6","0","0","1">>, <<" ","5","0","0","\r">>,
    <<"+","5","0","0">>, <<"-","5","0","0">>, <<"5","0","x">>, <<"+">>,
    <<"6","5","5","3","5">>, <<"6","5","5","3","6">>, <<"6","6","0","3","6">>,
    <<"0","6","0","0","0">> }
Bodies == UNION {BodiesOfLen(n) : n \in 0..MaxBodyLen} \cup SampleBodies
Lines == {b \o <<"\n">> : b \in Bodies} \cup {<<"5","0","0">>, <<"x">>}

\* text input that arrived in a burst: the line that is read (data) and the
\* complete lines already waiting behind it on the port (more)
Bursts ==
  { [res |-> "ok", data |-> <<"5","0","0","\n">>, more |-> << <<"6","0","0","0","\n">> >>],
    [res |-> "ok", data |-> <<"x","\n">>, more |-> << <<"1","2","3","4","\n">> >>] }

\* every result a read can have in mode m: data is the frame or line that is
\* read, more the complete lines waiting behind it
ReadResults(m) ==
  [res : ReadFailures, data : {NoData}, more : {<<>>}]
    \cup [res : {"ok"}, data : IF m = "Binary" THEN Frames ELSE Lines, more : {<<>>}]
    \cup (IF m = "Text" THEN Bursts ELSE {})

\* line 74: read_text_distance wraps the port in a new BufReader, whose
\* read_line takes everything that is waiting on the port into its buffer;
\* the BufReader is dropped at the return, with the lines behind the first
\* one, so none of them is left on the port
Unread(r) == <<>>

\* ------------------------------------------------------------------------
\* Console events (println! and eprintln!)
\* ------------------------------------------------------------------------
Ev(kind, port, value) == [kind |-> kind, port |-> port, value |-> value]
WarningKinds == {"WarnInvalidDistance", "WarnNoTextData", "WarnOutOfRange"}
IsWarning(e) == e.kind \in WarningKinds

\* ------------------------------------------------------------------------
\* Decoding
\* ------------------------------------------------------------------------
None == -1

\* lines 73-90: the Option<u16> read_text_distance returns and what it prints
read_text_distance(r) ==
  IF r.res = "ok" /\ Len(r.data) > 0
  THEN LET distance == ParseU16(Trim(r.data)) IN
       IF distance # ParseErr
       THEN IF InRange(distance)
            THEN [ret |-> distance, out |-> <<>>]
            ELSE [ret |-> None, out |-> <<Ev("WarnInvalidDistance", 0, distance)>>]
       ELSE [ret |-> None, out |-> <<>>]
  ELSE [ret |-> None, out |-> <<Ev("WarnNoTextData", 0, 0)>>]

\* lines 144-153: the text arm of the poll loop for port k
TextArm(r, k) ==
  LET got == read_text_distance(r) IN
  IF got.ret # None
  THEN [final_distance |-> got.ret,
        out |-> got.out \o <<Ev("ParsedDistance", k, got.ret)>>]
  ELSE [final_distance |-> 0, out |-> got.out]

\* BinaryArm without the test of the header byte
BinaryArmNoHeader(r, k) ==
  IF r.res = "ok"
  THEN LET distance == FrameDistance(r.data) IN
       IF InRange(distance)
       THEN [final_distance |-> distance, out |-> <<Ev("BinaryDistance", k, distance)>>]
       ELSE [final_distance |-> 0, out |-> <<Ev("WarnOutOfRange", k, distance)>>]
  ELSE [final_distance |-> 0, out |-> <<>>]

\* lines 154-173: the binary arm of the poll loop for port k
BinaryArm(r, k) ==
  IF r.res = "ok" /\ r.data[1] = FRAME_HEADER
  THEN LET distance == FrameDistance(r.data) IN
       IF InRange(distance)
       THEN [final_distance |-> distance, out |-> <<Ev("BinaryDistance", k, distance)>>]
       ELSE [final_distance |-> 0, out |-> <<Ev("WarnOutOfRange", k, distance)>>]
  ELSE [final_distance |-> 0, out |-> <<>>]

\* lines 140-177: final_distance and the console output for port k, given the
\* slot of serial_ports and the result of the read (made only on an open port)
PollOne(m, slot, r, k) ==
  IF slot = "Some"
  THEN IF m = "Text" THEN TextArm(r, k) ELSE BinaryArm(r, k)
  ELSE [final_distance |-> 0, out |-> <<Ev("Unavailable", k, 0)>>]

\* Entry that reports the millimetres as centimetres
EntryNoDivision(final_distance) ==
  [distance_mm |-> final_distance, distance_cm |-> final_distance]

\* lines 179-182: the JSON entry of one port
Entry(final_distance) ==
  [distance_mm |-> final_distance, distance_cm |-> final_distance \div 10]

\* SetSensor that records a port only when it produced a reading
SetSensorIfReading(sensors, name, entry) ==
  IF entry.distance_mm = 0 THEN sensors
  ELSE [p \in (DOMAIN sensors) \cup {name} |-> IF p = name THEN entry ELSE sensors[p]]

\* SetSensor that assigns a fresh object holding only the new entry
SetSensorFresh(sensors, name, entry) == [p \in {name} |-> entry]

\* line 179: sensor_readings["sensors"][name] = entry (insert or overwrite)
SetSensor(sensors, name, entry) ==
  [p \in (DOMAIN sensors) \cup {name} |-> IF p = name THEN entry ELSE sensors[p]]

RECURSIVE DecimalDigits(_)
\* the decimal digits of a natural number, most significant first
DecimalDigits(n) == IF n < 10 THEN <<n>> ELSE Append(DecimalDigits(n \div 10), n % 10)

\* "{:02}" and "%H": decimal, padded with zeros to a width of at least 2
Pad2(n) == IF n < 10 THEN <<0, n>> ELSE DecimalDigits(n)

\* lines 48-56: the file name save_to_json computes at wall-clock time t:
\* "sensor_data_<date>_<HH>-<rounded minute>.json", as the day number and the
\* digits of the two numeric fields
FileName(t) ==
  LET minute == (t \div 60) % 60
      rounded_minute == (minute \div JSON_FILE_INTERVAL_MINUTES) * JSON_FILE_INTERVAL_MINUTES
  IN <<t \div 86400, Pad2((t \div 3600) % 24), Pad2(rounded_minute)>>

\* TargetFile that keeps the file of the remembered rotation instant
TargetFileSticky(t, saved) == FileName(saved)

\* lines 48-66: the file save_to_json opens at time t; last_saved (saved) is
\* compared and reset at lines 59-61 but takes no part in the name
TargetFile(t, saved) == FileName(t)

\* ------------------------------------------------------------------------
\* State
\* ------------------------------------------------------------------------
VARIABLES
  mode,             \* SENSOR_MODE, fixed at build time
  pc,               \* position of main: "open", "loop", "poll", "save", "sleep", "exit"
  i,                \* index into PORTS of the open loop and of the poll loop
  serial_ports,     \* Vec<Option<Box<dyn SerialPort>>>: "Some" or "None" per slot
  sensor_readings,  \* the JSON record of the current cycle
  rx,               \* result of the read made by the latest poll step
  log,              \* console events printed by the latest step
  now,              \* the clock, in seconds
  last_saved,       \* the Instant save_to_json keeps
  cycle,            \* number of poll cycles started
  filename,         \* file name of the latest write attempt
  wtime,            \* wall-clock time of the latest call of save_to_json
  attempts,         \* number of calls of save_to_json
  nlines,           \* number of records appended to the log files
  tx,               \* per slot, the startup calls made on the port
  unread            \* lines left waiting on the port of the latest poll

vars == <<mode, pc, i, serial_ports, sensor_readings, rx, log, now, last_saved,
          cycle, filename, wtime, attempts, nlines, tx, unread>>

EmptyMap == [p \in {} |-> 0]
NoRead == [res |-> "none", data |-> NoData, more |-> <<>>]
NoFile == <<>>

\* the clock after a step that may block: it stays within the second or moves
\* on to the next one
Elapse(t) == {t} \cup (IF t - StartTime < MaxTicks THEN {t + 1} ELSE {})

Init ==
  /\ mode \in {"Binary", "Text"}
  /\ pc = "open"
  /\ i = 1
  /\ serial_ports = <<>>
  /\ sensor_readings = [timestamp |-> StartTime, sensors |-> EmptyMap]
  /\ rx = NoRead
  /\ log = <<>>
  /\ now = StartTime
  /\ last_saved = StartTime
  /\ cycle = 0
  /\ filename = NoFile
  /\ wtime = StartTime
  /\ attempts = 0
  /\ nlines = 0
  /\ tx = <<>>
  /\ unread = <<>>

\* a call made on a serial port, with the bytes it is given
Call(op, bytes) == [op |-> op, bytes |-> bytes]

\* lines 112-115: the mode-select command of mode m
ModeCommand(m) == IF m = "Binary" THEN BINARY_MODE_COMMAND ELSE TEXT_MODE_COMMAND

\* lines 41-44 and 32-34: the calls made on a port that opened, up to the
\* write of the command (port.flush() and the 200 ms sleep follow when the
\* write succeeded)
StartupCalls(m) ==
  <<Call("clear_input", <<>>), Call("clear_output", <<>>), Call("write_all", ModeCommand(m))>>

\* OpenOne that gives the port up when the command cannot be sent
OpenOneDropOnSendFailure(m, k, opened, sent) ==
  IF opened
  THEN [slot |-> IF sent THEN "Some" ELSE "None",
        calls |-> StartupCalls(m),
        out |-> <<Ev("Opened", k, 0), Ev("SendingCommand", k, 0)>>
                  \o (IF sent THEN <<>> ELSE <<Ev("FailedToSend", k, 0)>>)]
  ELSE [slot |-> "None", calls |-> <<>>, out |-> <<Ev("FailedToOpen", k, 0)>>]

\* lines 105-122 and 123-126: what the open loop pushes, calls and prints for
\* port k when open() returned opened and send_command returned sent
OpenOne(m, k, opened, sent) ==
  IF opened
  THEN [slot |-> "Some",
        calls |-> StartupCalls(m),
        out |-> <<Ev("Opened", k, 0), Ev("SendingCommand", k, 0)>>
                  \o (IF sent THEN <<>> ELSE <<Ev("FailedToSend", k, 0)>>)]
  ELSE [slot |-> "None", calls |-> <<>>, out |-> <<Ev("FailedToOpen", k, 0)>>]

\* lines 96-128: one iteration of the open loop
OpenPort ==
  /\ pc = "open"
  /\ i <= NumPorts
  /\ \E opened \in BOOLEAN, sent \in BOOLEAN :
       LET got == OpenOne(mode, i, opened, sent) IN
       /\ serial_ports' = Append(serial_ports, got.slot)
       /\ tx' = Append(tx, got.calls)
       /\ log' = got.out
       \* send_command sleeps 200 ms after a successful write
       /\ now' \in (IF opened /\ sent THEN Elapse(now) ELSE {now})
  /\ i' = i + 1
  /\ UNCHANGED <<mode, pc, sensor_readings, rx, last_saved, cycle, filename,
                 wtime, attempts, nlines, unread>>

\* line 130: the condition under which main gives up before the loop
\* (every slot of the open loop is pushed, Some or None, so the Vec holds one
\* element per configured port)
NoPortsAvailable(ports) == Len(ports) = 0

\* lines 130-133: after the open loop
CheckPorts ==
  /\ pc = "open"
  /\ i > NumPorts
  /\ IF NoPortsAvailable(serial_ports)
     THEN pc' = "exit" /\ log' = <<Ev("NoPorts", 0, 0)>>
     ELSE pc' = "loop" /\ log' = <<>>
  /\ UNCHANGED <<mode, i, serial_ports, sensor_readings, rx, now, last_saved,
                 cycle, filename, wtime, attempts, nlines, tx, unread>>

\* lines 135-137: the top of the loop body
BeginCycle ==
  /\ pc = "loop"
  /\ cycle < MaxCycles
  /\ cycle' = cycle + 1
  /\ sensor_readings' = [timestamp |-> now, sensors |-> EmptyMap]
  /\ i' = 1
  /\ pc' = "poll"
  /\ rx' = NoRead
  /\ log' = <<>>
  /\ UNCHANGED <<mode, serial_ports, now, last_saved, filename, wtime, attempts,
                 nlines, tx, unread>>

\* ReadsOf that reads whatever the slot holds
ReadsOfAnySlot(m, slot) == ReadResults(m)

\* line 142: a read is made only when the slot holds a port
ReadsOf(m, slot) == IF slot = "Some" THEN ReadResults(m) ELSE {NoRead}

\* AfterPoll that leaves the per-port loop when a read fails
AfterPollBreak(k, n, r) ==
  IF k = n \/ r.res \in ReadFailures THEN "save" ELSE "poll"

\* line 139: the for loop goes through every slot of serial_ports, whatever
\* the read of slot k out of n returned
AfterPoll(k, n, r) == IF k = n THEN "save" ELSE "poll"

\* lines 139-183: one iteration of the per-port loop
PollPort ==
  /\ pc = "poll"
  /\ i <= Len(serial_ports)
  /\ \E r \in ReadsOf(mode, serial_ports[i]) :
       LET got == PollOne(mode, serial_ports[i], r, i) IN
       /\ rx' = r
       /\ unread' = Unread(r)
       /\ log' = got.out
       /\ sensor_readings' =
            [sensor_readings EXCEPT
               !.sensors = SetSensor(@, PORTS[i], Entry(got.final_distance))]
       \* a read blocks for at most the port timeout
       /\ now' \in (IF serial_ports[i] = "Some" THEN Elapse(now) ELSE {now})
       /\ pc' = AfterPoll(i, Len(serial_ports), r)
  /\ i' = i + 1
  /\ UNCHANGED <<mode, serial_ports, last_saved, cycle, filename, wtime, attempts,
                 nlines, tx>>

\* lines 63-68: the file is opened and the line appended, or open() fails, or
\* writeln! fails
SaveResults == {"ok", "open_failed", "write_failed"}

\* AfterSave that propagates the error of save_to_json out of main
AfterSaveFatal(result) == IF result = "ok" THEN "sleep" ELSE "exit"

\* lines 186-188: an error of save_to_json is printed and the loop goes on
AfterSave(result) == "sleep"

\* lines 47-70 and 186-188: save_to_json and the handling of its error
Save ==
  /\ pc = "save"
  /\ filename' = TargetFile(now, last_saved)
  /\ wtime' = now
  /\ last_saved' = IF now - last_saved >= JSON_FILE_INTERVAL_MINUTES * 60
                   THEN now ELSE last_saved
  /\ attempts' = attempts + 1
  /\ \E result \in SaveResults :
       /\ nlines' = IF result = "ok" THEN nlines + 1 ELSE nlines
       /\ log' = IF result = "ok" THEN <<>> ELSE <<Ev("ErrorSaving", 0, 0)>>
       /\ pc' = AfterSave(result)
  /\ rx' = NoRead
  /\ UNCHANGED <<mode, i, serial_ports, sensor_readings, now, cycle, tx, unread>>

\* the clock after thread::sleep: the sleep lasts at least its duration and
\* the process may be suspended for longer, here for one rotation interval
SleepElapse(t) ==
  Elapse(t) \cup (IF t - StartTime <= MaxTicks
                  THEN {t + JSON_FILE_INTERVAL_MINUTES * 60} ELSE {})

\* line 190: thread::sleep(SAMPLING_INTERVAL_MS)
Sleep ==
  /\ pc = "sleep"
  /\ now' \in SleepElapse(now)
  /\ pc' = "loop"
  /\ log' = <<>>
  /\ UNCHANGED <<mode, i, serial_ports, sensor_readings, rx, last_saved, cycle,
                 filename, wtime, attempts, nlines, tx, unread>>

Next == OpenPort \/ CheckPorts \/ BeginCycle \/ PollPort \/ Save \/ Sleep

Spec == Init /\ [][Next]_vars

\* ------------------------------------------------------------------------
\* Properties
\* ------------------------------------------------------------------------
\* the latest step polled port LastPolled, and rx and log are those of that poll
JustPolled == pc \in {"poll", "save"} /\ i > 1
LastPolled == i - 1
LastEntry == sensor_readings.sensors[PORTS[LastPolled]]
HasWarning == \E n \in 1..Len(log) : IsWarning(log[n])

\* the record is complete and is being, or has been, handed to save_to_json
RecordHandedOver == pc \in {"save", "sleep"}

\* C1: every cycle record handed to the writer has an entry for each port of
\* PORTS and for nothing else, and a port that gave no reading (never opened,
\* or a failed read) is present with distance_mm = 0.
C1_EveryPortInEveryRecord ==
  RecordHandedOver =>
    /\ DOMAIN sensor_readings.sensors = PortNames
    /\ \A k \in 1..NumPorts :
         serial_ports[k] = "None" => sensor_readings.sensors[PORTS[k]].distance_mm = 0
    /\ (pc = "save" /\ rx.res # "ok") => LastEntry.distance_mm = 0

C1_Witness ==
  /\ pc = "save"
  /\ serial_ports[1] = "None"
  /\ serial_ports[2] = "Some"
  /\ sensor_readings.sensors[PORTS[2]].distance_mm = 6000
  /\ rx.res = "timeout"

\* the value the sensor protocol assigns to a frame: bytes 2 and 3 as a
\* big-endian number of tenths of a millimetre, in whole millimetres
BigEndianTenths(frame) == (frame[3] * 256 + frame[4]) \div 10

\* C2: in binary mode a frame [0x54, x, hi, lo] whose value v = (hi<<8|lo)/10
\* lies within [MIN_DISTANCE_MM, MAX_DISTANCE_MM] gives the port the entry
\* distance_mm = v, whatever byte 1 is.
C2_BinaryFrameDecoded ==
  (JustPolled /\ mode = "Binary" /\ rx.res = "ok" /\ rx.data[1] = 84
     /\ BigEndianTenths(rx.data) >= MIN_DISTANCE_MM
     /\ BigEndianTenths(rx.data) <= MAX_DISTANCE_MM)
    => LastEntry.distance_mm = BigEndianTenths(rx.data)

C2_Witness ==
  /\ JustPolled /\ mode = "Binary" /\ rx.res = "ok"
  /\ rx.data = <<84, 255, 19, 255>>
  /\ LastEntry.distance_mm = 511

\* C3: in binary mode a frame whose byte 0 is not 0x54 gives distance_mm = 0,
\* whatever bytes 1, 2 and 3 are.
C3_BadHeaderZeroed ==
  (JustPolled /\ mode = "Binary" /\ rx.res = "ok" /\ rx.data[1] # 84)
    => LastEntry.distance_mm = 0

C3_Witness ==
  /\ JustPolled /\ mode = "Binary" /\ rx.res = "ok"
  /\ rx.data = <<0, 255, 19, 136>>
  /\ BigEndianTenths(rx.data) = 500
  /\ LastEntry.distance_mm = 0

\* C4: in binary mode a decoded value v is accepted exactly when
\* MIN_DISTANCE_MM <= v <= MAX_DISTANCE_MM (500 and 6000 accepted, 499 and
\* 6001 rejected); a rejected value gives distance_mm = 0 and a warning that
\* carries v.
C4_BinaryRangeInclusive ==
  (JustPolled /\ mode = "Binary" /\ rx.res = "ok" /\ rx.data[1] = 84) =>
    LET v == BigEndianTenths(rx.data)
        accepted == LastEntry.distance_mm = v /\ ~HasWarning
        rejected == /\ LastEntry.distance_mm = 0
                    /\ log = <<Ev("WarnOutOfRange", LastPolled, v)>>
    IN /\ (MIN_DISTANCE_MM <= v /\ v <= MAX_DISTANCE_MM) => accepted
       /\ (v < MIN_DISTANCE_MM \/ v > MAX_DISTANCE_MM) => rejected
       /\ v \in {500, 6000} => accepted
       /\ v \in {499, 6001} => rejected

C4_Witness ==
  /\ JustPolled /\ mode = "Binary" /\ rx.res = "ok"
  /\ rx.data = <<84, 0, 234, 106>>
  /\ LastEntry.distance_mm = 0
  /\ log = <<Ev("WarnOutOfRange", LastPolled, 6001)>>

\* the unsigned integer a trimmed line denotes: an optional "+" and then one
\* or more decimal digits, read positionally
UnsignedDigits(s) == IF s # <<>> /\ Head(s) = "+" THEN Tail(s) ELSE s
IsUnsigned(s) ==
  LET d == UnsignedDigits(s) IN
  d # <<>> /\ \A n \in 1..Len(d) : d[n] \in Digits
RECURSIVE Pow10(_)
Pow10(n) == IF n = 0 THEN 1 ELSE 10 * Pow10(n - 1)
RECURSIVE SumOver(_, _)
SumOver(d, n) ==
  IF n = 0 THEN 0 ELSE DigitVal[d[n]] * Pow10(Len(d) - n) + SumOver(d, n - 1)
UnsignedValue(s) == SumOver(UnsignedDigits(s), Len(UnsignedDigits(s)))
\* a line that denotes a number within the accepted range
TextAccepted(line) ==
  /\ IsUnsigned(Trim(line))
  /\ MIN_DISTANCE_MM <= UnsignedValue(Trim(line))
  /\ UnsignedValue(Trim(line)) <= MAX_DISTANCE_MM

\* C5: in text mode a line that was read is trimmed and parsed as an unsigned
\* integer, and the entry is the parsed value when the parse succeeds and the
\* value lies within [MIN_DISTANCE_MM, MAX_DISTANCE_MM], and 0 otherwise
\* ("1234\n" gives 1234, "7000\n" gives 0).
C5_TextLineDecoded ==
  (JustPolled /\ mode = "Text" /\ rx.res = "ok") =>
    /\ LastEntry.distance_mm =
         (IF TextAccepted(rx.data) THEN UnsignedValue(Trim(rx.data)) ELSE 0)
    /\ rx.data = <<"1", "2", "3", "4", "\n">> => LastEntry.distance_mm = 1234
    /\ rx.data = <<"7", "0", "0", "0", "\n">> => LastEntry.distance_mm = 0

C5_Witness ==
  /\ JustPolled /\ mode = "Text" /\ rx.res = "ok"
  /\ rx.data = <<" ", "5", "0", "0", "\r", "\n">>
  /\ LastEntry.distance_mm = 500

\* C6: if none of the configured ports opens, the process terminates before
\* the poll loop: no cycle is run and no record is written.
C6_NoPortNoLoop ==
  (i > NumPorts /\ \A k \in 1..NumPorts : serial_ports[k] = "None")
    => (pc \in {"open", "exit"} /\ cycle = 0 /\ attempts = 0 /\ nlines = 0)

\* C7: a port whose open failed stays unavailable: its slot never changes,
\* nothing is opened after the open loop, and in every cycle its poll makes
\* no read and records distance_mm = 0.
C7_FailedPortStaysUnavailable ==
  [][ /\ \A k \in DOMAIN serial_ports :
           serial_ports[k] = "None"
             => (k \in DOMAIN serial_ports' /\ serial_ports'[k] = "None")
      /\ pc # "open" => serial_ports' = serial_ports
      /\ (pc = "poll" /\ serial_ports[i] = "None")
           => /\ rx' = NoRead
              /\ now' = now
              /\ sensor_readings'.sensors[PORTS[i]].distance_mm = 0
    ]_vars

C7_Witness ==
  /\ cycle = 2
  /\ pc = "save"
  /\ serial_ports = <<"Some", "None", "None">>
  /\ sensor_readings.sensors[PORTS[1]].distance_mm = 500
  /\ rx = NoRead
  /\ LastEntry.distance_mm = 0

\* C8: the entry of a port is decided by that port's slot and by its own read
\* of this cycle alone: a poll adds the entry of its port, a failed read gives
\* 0, entries recorded earlier in the cycle stay as they are whatever the
\* later ports return, the loop goes on to the next port after any outcome,
\* and a cycle starts from an empty record.
C8_PerPortContainment ==
  [][ /\ pc = "poll" =>
           /\ DOMAIN sensor_readings'.sensors
                = (DOMAIN sensor_readings.sensors) \cup {PORTS[i]}
           /\ \A p \in DOMAIN sensor_readings.sensors :
                sensor_readings'.sensors[p] = sensor_readings.sensors[p]
           /\ sensor_readings'.sensors[PORTS[i]]
                = Entry(PollOne(mode, serial_ports[i], rx', i).final_distance)
           /\ rx'.res # "ok" => sensor_readings'.sensors[PORTS[i]].distance_mm = 0
           /\ pc' = IF i = NumPorts THEN "save" ELSE "poll"
           /\ i' = i + 1
      /\ (pc = "loop" /\ pc' = "poll") => sensor_readings'.sensors = EmptyMap
      /\ pc \in {"save", "sleep"} => sensor_readings' = sensor_readings
    ]_vars

C8_Witness ==
  /\ cycle = 2
  /\ pc = "save"
  /\ serial_ports = <<"Some", "Some", "Some">>
  /\ sensor_readings.sensors[PORTS[1]].distance_mm = 500
  /\ sensor_readings.sensors[PORTS[2]].distance_mm = 0
  /\ rx.res = "timeout"
  /\ LastEntry.distance_mm = 0

\* a frame or line that was read and is malformed: a wrong header byte in
\* binary mode, a line that is no unsigned integer in text mode
Malformed(m, r) ==
  /\ r.res = "ok"
  /\ IF m = "Binary" THEN r.data[1] # 84
     ELSE ~IsUnsigned(Trim(r.data))

\* a well-formed frame or line whose value lies outside the accepted range
OutOfRange(m, r) ==
  /\ r.res = "ok"
  /\ ~Malformed(m, r)
  /\ LET v == IF m = "Binary" THEN BigEndianTenths(r.data)
              ELSE UnsignedValue(Trim(r.data))
     IN v < MIN_DISTANCE_MM \/ v > MAX_DISTANCE_MM

\* C9: every malformed frame read from an open port is logged at warning
\* level in its cycle and its reading is zeroed.
C9_MalformedFrameWarned ==
  (JustPolled /\ Malformed(mode, rx)) => (HasWarning /\ LastEntry.distance_mm = 0)

\* C10: a read timeout gives distance_mm = 0 without a warning, and the
\* console events of the port in that cycle differ from those of every
\* malformed frame and of every out-of-range reading.
C10_TimeoutSilentAndDistinct ==
  (JustPolled /\ rx.res = "timeout") =>
    /\ LastEntry.distance_mm = 0
    /\ ~HasWarning
    /\ \A r \in ReadResults(mode) :
         (Malformed(mode, r) \/ OutOfRange(mode, r))
           => PollOne(mode, "Some", r, LastPolled).out # log


\* C11: a read that fails with an I/O error other than a timeout is logged,
\* gives distance_mm = 0 and leaves the port open.
C11_IoErrorLoggedPortKept ==
  (JustPolled /\ rx.res = "ioerr") =>
    /\ Len(log) > 0
    /\ LastEntry.distance_mm = 0
    /\ serial_ports[LastPolled] = "Some"


InLoop == pc \in {"loop", "poll", "save", "sleep"}
SaveFailed == pc = "sleep" /\ log = <<Ev("ErrorSaving", 0, 0)>>

\* C12: a failure to open or append to the log file is logged and is not
\* fatal: nothing is appended for that cycle, neither then nor later (every
\* write attempt appends at most its own record), the loop goes on to the
\* sleep and the next cycle, and once the loop is entered the process never
\* leaves it.
C12_WriteErrorNotFatal ==
  [][ /\ InLoop => InLoop'
      /\ pc = "save" =>
           /\ pc' = "sleep"
           /\ attempts' = attempts + 1
           /\ \/ nlines' = nlines + 1 /\ log' = <<>>
              \/ nlines' = nlines /\ log' = <<Ev("ErrorSaving", 0, 0)>>
      /\ pc # "save" => (nlines' = nlines /\ attempts' = attempts)
      /\ (pc = "loop" /\ cycle < MaxCycles) => ENABLED BeginCycle
    ]_vars

C12_Witness ==
  /\ cycle = 2
  /\ pc = "sleep"
  /\ attempts = 2
  /\ nlines = 1
  /\ log = <<>>
  /\ DOMAIN sensor_readings.sensors = PortNames


\* the wall-clock time h:m:s of day 0, in seconds
ClockTime(h, m, s) == h * 3600 + m * 60 + s
\* key(t, N) of the rotation policy: date, hour, floor(minute / N) * N, with
\* the floor taken by removing the remainder
BucketKey(t, n) ==
  LET minute == (t \div 60) % 60
  IN <<t \div 86400, (t \div 3600) % 24, minute - (minute % n)>>
\* the key a file name reads back as
RECURSIVE NumberOf(_)
NumberOf(digits) ==
  IF digits = <<>> THEN 0
  ELSE 10 * NumberOf(SubSeq(digits, 1, Len(digits) - 1)) + digits[Len(digits)]
KeyOfName(name) == <<name[1], NumberOf(name[2]), NumberOf(name[3])>>

C14_EntryCarriesFrequency ==
  (JustPolled /\ LastEntry.distance_mm # 0)
    => "sampling_frequency_hz" \in DOMAIN LastEntry


\* C15: in every entry of every record distance_cm is distance_mm divided by
\* 10 and truncated: 10 * cm <= mm < 10 * cm + 10, for accepted and for
\* zeroed readings alike.
C15_CentimetresTruncated ==
  \A p \in DOMAIN sensor_readings.sensors :
    LET e == sensor_readings.sensors[p] IN
    /\ 10 * e.distance_cm <= e.distance_mm
    /\ e.distance_mm < 10 * e.distance_cm + 10
    /\ e.distance_mm = 0 => e.distance_cm = 0

C15_Witness ==
  /\ RecordHandedOver
  /\ \E p \in DOMAIN sensor_readings.sensors :
       sensor_readings.sensors[p] = [distance_mm |-> 1234, distance_cm |-> 123]
  /\ \E p \in DOMAIN sensor_readings.sensors :
       sensor_readings.sensors[p] = [distance_mm |-> 0, distance_cm |-> 0]


PolledSoFar == {PORTS[k] : k \in 1..(i - 1)}

\* C16: within a cycle the ports are polled in the order of PORTS, one after
\* the other and none skipped; the poll of an open port makes one read and
\* the poll of an unavailable port makes none; save_to_json is called only
\* when every port has its entry, and exactly once per cycle.
C16_OrderedPollsOneWrite ==
  /\ [](/\ pc = "poll" => (i <= NumPorts /\ DOMAIN sensor_readings.sensors = PolledSoFar)
        /\ pc = "save" => DOMAIN sensor_readings.sensors = PortNames
        /\ attempts = (IF pc \in {"poll", "save"} THEN cycle - 1 ELSE cycle))
  /\ [][ /\ pc = "poll" =>
              /\ i' = i + 1
              /\ DOMAIN sensor_readings'.sensors = PolledSoFar \cup {PORTS[i]}
              /\ (rx' # NoRead) <=> (serial_ports[i] = "Some")
              /\ attempts' = attempts
         /\ attempts' # attempts =>
              /\ pc = "save"
              /\ attempts' = attempts + 1
              /\ DOMAIN sensor_readings.sensors = PortNames
       ]_vars

C16_Witness ==
  /\ cycle = 2
  /\ pc = "sleep"
  /\ attempts = 2
  /\ serial_ports = <<"Some", "None", "Some">>
  /\ sensor_readings.sensors[PORTS[1]].distance_mm = 0
  /\ sensor_readings.sensors[PORTS[3]].distance_mm = 500


\* what is to be seen on a port that opened: both buffers cleared, then the
\* command of the configured mode written, once
ExpectedStartup ==
  << [op |-> "clear_input", bytes |-> <<>>],
     [op |-> "clear_output", bytes |-> <<>>],
     [op |-> "write_all",
      bytes |-> IF mode = "Text" THEN <<0, 17, 1, 69>> ELSE <<0, 17, 2, 76>>] >>
SendFailureLogged == \E n \in 1..Len(log) : log[n].kind = "FailedToSend"

\* C17: every port that opens has its buffers flushed and is then sent the
\* mode-select command of the configured mode exactly once, before the first
\* poll of any port; nothing is sent later or to a port that failed to open;
\* a failure to send is logged and the port is kept open and read in every
\* cycle.
C17_StartupSequence ==
  /\ [](/\ pc = "open" => (cycle = 0 /\ rx = NoRead)
        /\ \A k \in DOMAIN serial_ports :
             tx[k] = (IF serial_ports[k] = "Some" THEN ExpectedStartup ELSE <<>>)
        /\ pc # "open" => DOMAIN tx = 1..NumPorts)
  /\ [][ /\ pc # "open" => tx' = tx
         /\ (pc = "open" /\ SendFailureLogged')
              => (serial_ports'[i] = "Some" /\ tx'[i] = ExpectedStartup)
         /\ \A k \in DOMAIN serial_ports :
              serial_ports[k] = "Some" => serial_ports'[k] = "Some"
         /\ (pc = "poll" /\ serial_ports[i] = "Some") => rx' # NoRead
       ]_vars

C17_Witness ==
  /\ mode = "Text"
  /\ pc = "open"
  /\ serial_ports = <<"Some", "None", "Some">>
  /\ SendFailureLogged
  /\ tx[1] = ExpectedStartup
  /\ tx[2] = <<>>
  /\ tx[3][3].bytes = <<0, 17, 1, 69>>


\* C18: in text mode a poll takes exactly one line from the input of the
\* port: the complete lines that were waiting behind it are still waiting
\* after the poll, to be decoded by the following polls.
C18_OneLinePerPoll ==
  (JustPolled /\ mode = "Text" /\ rx.res = "ok") => unread = rx.more


\* C19: in either mode, in every cycle and after any failures, each
\* distance_mm of the cycle record is 0 or lies in 500..6000, and the 16-bit
\* value rebuilt from the two distance bytes of a frame is hi * 256 + lo, at
\* most 65535: neither the shift nor the or wraps.
C19_RecordedDistancesInRange ==
  /\ \A p \in DOMAIN sensor_readings.sensors :
       LET d == sensor_readings.sensors[p].distance_mm
       IN d = 0 \/ (500 <= d /\ d <= 6000)
  /\ (JustPolled /\ mode = "Binary" /\ rx.res = "ok") =>
       /\ Shl8(rx.data[3]) = rx.data[3] * 256
       /\ BitOr(Shl8(rx.data[3]), rx.data[4]) = rx.data[3] * 256 + rx.data[4]
       /\ rx.data[3] * 256 + rx.data[4] <= 65535

\* the second record holds both limits and a zero, the last one from a frame
\* whose distance bytes are both 0xFF
C19_Witness ==
  /\ pc = "save" /\ cycle = 2 /\ mode = "Binary"
  /\ rx.res = "ok" /\ rx.data = <<84, 0, 255, 255>>
  /\ LastEntry.distance_mm = 0
  /\ \E p \in DOMAIN sensor_readings.sensors : sensor_readings.sensors[p].distance_mm = 500
  /\ \E p \in DOMAIN sensor_readings.sensors : sensor_readings.sensors[p].distance_mm = 6000


\* C20: the file a cycle record is appended to is the file of the bucket
\* that contains the record's own timestamp: the key of the file of the
\* write is key(record timestamp, N), also when reads took place between
\* taking the timestamp and computing the file name.
C20_FileIsKeyOfRecordTimestamp ==
  pc = "sleep" =>
    KeyOfName(filename) = BucketKey(sensor_readings.timestamp, JSON_FILE_INTERVAL_MINUTES)

====
